---- MODULE Spec2Model ----
(***************************************************************************)
(* Event lifecycle of the student event backend (src/src/routes/events.ts, *)
(* src/src/utils/event.ts): the event store, the uploaded image files, the *)
(* registration ledger and the request handlers that act on them.          *)
(*                                                                         *)
(* A handler is cut at its awaits on the storage layer: the synchronous    *)
(* code up to a storage call and the call itself are one step.  The        *)
(* register route and the registration table are not in src/; they follow  *)
(* the README's description of POST /events/:eventId/register.             *)
(*                                                                         *)
(* Spec serves the event routes, SpecLedger adds registration, SpecImages  *)
(* adds uploads, SpecRace runs two registrations for one remaining seat.   *)
(***************************************************************************)
EXTENDS Integers, Sequences, FiniteSets, TLC

\* ---------------------------------------------------------------- bounds
NUsers == 2
MaxEvents == 2
MaxTime == 3
MaxLimit == 3
MaxUpload == 2
MaxFiles == 3

Users == 1..NUsers
EventIds == 1..MaxEvents
Procs == {1, 2}

\* new Date(value) of a string that is no date: getTime() is NaN.
InvalidDate == 0 - 1
\* The dates a request body can carry, after new Date(value).
DateInputs == {InvalidDate} \cup (1..MaxTime)
\* The numbers z.coerce.number() can produce for attendanceLimit, counted in
\* halves so that non-integers are inputs too: 0, 1/2 and the whole numbers
\* 1..MaxLimit.
LimitInputs == {0, 1} \cup {2 * k : k \in 1..MaxLimit}
\* The request bodies.  textOk says whether name, description, location,
\* eventOwner and category all pass their min(1)/max(n) string checks.
\* A body is either accepted by the schema (with any schedule and the least
\* or the greatest limit) or has exactly one field the schema refuses.
AllDrafts ==
  [textOk : BOOLEAN, time : DateInputs, registrationDeadline : DateInputs,
   attendanceLimit : LimitInputs]

Refused(draft) ==
  {f \in {"text", "time", "registrationDeadline", "attendanceLimit"} :
     \/ f = "text" /\ ~draft.textOk
     \/ f = "time" /\ draft.time = InvalidDate
     \/ f = "registrationDeadline" /\ draft.registrationDeadline = InvalidDate
     \/ f = "attendanceLimit" /\ draft.attendanceLimit \in {0, 1}}

Drafts ==
  {d \in AllDrafts :
     \/ Refused(d) = {} /\ d.attendanceLimit \in {2, 2 * MaxLimit}
     \/ /\ Cardinality(Refused(d)) = 1
        /\ d.time \in {InvalidDate, MaxTime}
        /\ d.registrationDeadline \in {InvalidDate, MaxTime - 1}
        /\ d.attendanceLimit \in {0, 1, 2}}

\* The bodies of the requests that carry images: one the schema and the
\* schedule accept, one with a deadline after the start, one the schema
\* refuses.
ImageDrafts ==
  {[textOk |-> ok, time |-> MaxTime, registrationDeadline |-> dl,
    attendanceLimit |-> 2] : ok \in BOOLEAN, dl \in {1, MaxTime}}
  \ {[textOk |-> FALSE, time |-> MaxTime, registrationDeadline |-> MaxTime,
       attendanceLimit |-> 2]}

\* The bodies of the requests made while the ledger is watched: the schema
\* accepts them all, the schedule accepts them while the deadline is ahead.
LedgerDrafts ==
  [textOk : {TRUE}, time : {MaxTime}, registrationDeadline : 1..(MaxTime - 1),
   attendanceLimit : {2, 2 * MaxLimit}]

NoDraft ==
  [textOk |-> FALSE, time |-> InvalidDate, registrationDeadline |-> InvalidDate,
   attendanceLimit |-> 0]

\* ------------------------------------------------- sequences, small helpers
Range(s) == {s[i] : i \in DOMAIN s}

\* The file names multer's diskStorage gives to n uploaded files, in upload
\* order: fresh names after the `used` names handed out so far.
Filenames(used, n) == [i \in 1..n |-> used + i]

\* ------------------------------------------------ image lists as stored text
\* The stored text is a sequence of tokens: a file name (a positive number)
\* or one of the punctuation marks of JSON.stringify's output.
LBracket == 0 - 1
RBracket == 0 - 2
Comma == 0 - 3

RECURSIVE JoinComma(_)
JoinComma(items) ==
  IF Len(items) <= 1 THEN items
  ELSE <<Head(items), Comma>> \o JoinComma(Tail(items))

\* JSON.stringify(images) of a string array.
stringifyImages(images) == <<LBracket>> \o JoinComma(images) \o <<RBracket>>

\* images.split(","): the pieces between the commas.
RECURSIVE SplitComma(_, _)
SplitComma(text, piece) ==
  IF text = <<>> THEN <<piece>>
  ELSE IF Head(text) = Comma THEN <<piece>> \o SplitComma(Tail(text), <<>>)
  ELSE SplitComma(Tail(text), Append(piece, Head(text)))

\* Does JSON.parse accept the text as an array of strings?
IsJsonArray(text) ==
  /\ Len(text) >= 2
  /\ text[1] = LBracket
  /\ text[Len(text)] = RBracket
  /\ LET inner == SubSeq(text, 2, Len(text) - 1)
     IN  \/ inner = <<>>
         \/ /\ Len(inner) % 2 = 1
            /\ \A i \in DOMAIN inner :
                 IF i % 2 = 1 THEN inner[i] > 0 ELSE inner[i] = Comma

\* parseImages: the array JSON.parse yields, or, when JSON.parse throws, the
\* non-empty comma-separated pieces (a piece that is one file name).
parseImages(images) ==
  IF images = <<>> THEN <<>>
  ELSE IF IsJsonArray(images)
    THEN SelectSeq(SubSeq(images, 2, Len(images) - 1), LAMBDA t : t > 0)
    ELSE LET pieces == SelectSeq(SplitComma(images, <<>>),
                                 LAMBDA piece : piece # <<>>)
         IN  [i \in DOMAIN pieces |-> pieces[i][1]]

\* toPublicEvent: the stored record with its images decoded and the
\* registration count defaulted to 0 (no handler of events.ts supplies one).
toPublicEvent(event) ==
  [id |-> event.id,
   startsAt |-> event.startsAt,
   registrationDeadline |-> event.registrationDeadline,
   attendanceLimit |-> event.attendanceLimit,
   ownerId |-> event.ownerId,
   images |-> parseImages(event.images),
   registrationCount |-> 0]

\* --------------------------------------------------------------- validation
\* A mutant of SchemaOk: the .positive() check on attendanceLimit is missing.
SchemaOkNoPositive(draft) ==
  /\ draft.textOk
  /\ draft.time # InvalidDate
  /\ draft.registrationDeadline # InvalidDate
  /\ draft.attendanceLimit % 2 = 0

\* createEventSchema.safeParse(req.body).success
SchemaOk(draft) ==
  /\ draft.textOk
  /\ draft.time # InvalidDate
  /\ draft.registrationDeadline # InvalidDate
  /\ draft.attendanceLimit % 2 = 0
  /\ draft.attendanceLimit > 0

\* parsed.data: the draft with attendanceLimit as the whole number it is.
ParsedData(draft) ==
  [time |-> draft.time,
   registrationDeadline |-> draft.registrationDeadline,
   attendanceLimit |-> draft.attendanceLimit \div 2]

NoError == "none"

\* A mutant of validateSchedule: the deadline may equal the start time.
validateScheduleLoose(startsAt, registrationDeadline, t) ==
  IF startsAt <= t THEN "Event time must be in the future"
  ELSE IF registrationDeadline <= t
    THEN "Registration deadline must be in the future"
  ELSE IF registrationDeadline > startsAt
    THEN "Registration deadline must be before the event start time"
  ELSE NoError

\* validateSchedule(startsAt, registrationDeadline, now): the error message,
\* or NoError for null.
validateSchedule(startsAt, registrationDeadline, t) ==
  IF startsAt <= t THEN "Event time must be in the future"
  ELSE IF registrationDeadline <= t
    THEN "Registration deadline must be in the future"
  ELSE IF registrationDeadline >= startsAt
    THEN "Registration deadline must be before the event start time"
  ELSE NoError


\* ------------------------------------------------------- university emails
\* An email string that z.string().email() accepts: its local part (a name
\* and whether it has capital letters) and its domain (likewise).
Domains == {"uzh.ch", "ethz.ch"}

Emails ==
  [local : Users, caps : BOOLEAN, domain : Domains, domainCaps : BOOLEAN]

\* ENV.ALLOWED_EMAIL_DOMAIN (its default).
ALLOWED_EMAIL_DOMAIN == [domain |-> "uzh.ch", domainCaps |-> FALSE]

\* email.toLowerCase()
toLowerCase(email) == [email EXCEPT !.caps = FALSE, !.domainCaps = FALSE]

\* isAllowedDomain(email): the lower-cased part after the "@" is the
\* lower-cased allowed domain.
isAllowedDomain(email) ==
  [domain |-> email.domain, domainCaps |-> FALSE]
    = [ALLOWED_EMAIL_DOMAIN EXCEPT !.domainCaps = FALSE]

\* The address of the account user u registered with.
Address(u) ==
  [local |-> u, caps |-> FALSE, domain |-> ALLOWED_EMAIL_DOMAIN.domain,
   domainCaps |-> FALSE]

\* ------------------------------------------------ interests as stored text
\* An interest is a string: a sequence of letters (positive numbers), commas
\* and spaces.  The column holds the strings joined with commas, or null.
Space == 0 - 4
Null == <<0>>
Undefined == <<<<0>>>>

\* The limits of the two schemas on the number of interests.
RegisterMaxInterests == 10
ProfileMaxInterests == 12

\* interests.join(",")
RECURSIVE JoinStrings(_)
JoinStrings(items) ==
  IF items = <<>> THEN <<>>
  ELSE IF Len(items) = 1 THEN items[1]
  ELSE items[1] \o <<Comma>> \o JoinStrings(Tail(items))

\* entry.trim()
RECURSIVE trimStart(_)
trimStart(s) ==
  IF s # <<>> /\ Head(s) = Space THEN trimStart(Tail(s)) ELSE s

RECURSIVE trimEnd(_)
trimEnd(s) ==
  IF s # <<>> /\ s[Len(s)] = Space THEN trimEnd(SubSeq(s, 1, Len(s) - 1))
  ELSE s

trim(s) == trimEnd(trimStart(s))

\* registerSchema.interests: an optional array of at most
\* RegisterMaxInterests strings of at least one character.
RegisterInterestsOk(interests) ==
  \/ interests = Undefined
  \/ /\ Len(interests) <= RegisterMaxInterests
     /\ \A i \in DOMAIN interests : Len(interests[i]) >= 1

\* The column value handleRegister writes: data.interests?.join(",") ?? null.
RegisterInterestsText(interests) ==
  IF interests = Undefined THEN Null ELSE JoinStrings(interests)

\* profileSchema.interests' preprocess of an array: every non-empty item is
\* split at its commas and the pieces are trimmed.
RECURSIVE preprocessInterests(_)
preprocessInterests(value) ==
  IF value = <<>> THEN <<>>
  ELSE LET item == Head(value)
           entries == SplitComma(item, <<>>)
           pieces == IF Len(item) > 0
                       THEN [i \in DOMAIN entries |-> trim(entries[i])]
                       ELSE <<>>
       IN  pieces \o preprocessInterests(Tail(value))

\* profileSchema.interests after the preprocess: at most ProfileMaxInterests
\* strings of at least one character.
ProfileInterestsOk(pieces) ==
  /\ Len(pieces) <= ProfileMaxInterests
  /\ \A i \in DOMAIN pieces : Len(pieces[i]) >= 1

\* toPublicUser's interests: the non-empty pieces of the column, [] for null
\* and for the empty string.
PublicInterests(text) ==
  IF text = Null \/ text = <<>> THEN <<>>
  ELSE SelectSeq(SplitComma(text, <<>>), LAMBDA piece : piece # <<>>)

\* toPublicUser(user)
toPublicUser(user) == [user EXCEPT !.interests = PublicInterests(user.interests)]

\* n interests of one letter each.
InterestItems(n) == [i \in 1..n |-> <<i>>]

\* The User rows where every user of Users has registered, without interests
\* and without a profile image (profileImageUrl 0 stands for null).
Registered ==
  [u \in Users |->
     [id |-> u, universityEmail |-> Address(u), interests |-> Null,
      profileImageUrl |-> 0]]

\* ---------------------------------------------------- Authorization header
\* A token is what jwt.verify makes of it: the subject it names and whether
\* its signature and expiry pass; EmptyToken is the empty string.
Tokens == [sub : Users, signed : BOOLEAN]
EmptyToken == [sub |-> 0, signed |-> FALSE]

\* The header is the list header.split(" ") yields; NoHeader when the request
\* has none.
Schemes == {"Bearer", "bearer", "Basic"}
NoHeader == <<>>
Headers ==
  {NoHeader} \cup {<<scheme>> : scheme \in Schemes}
    \cup {<<scheme, token>> : scheme \in Schemes,
                              token \in Tokens \cup {EmptyToken}}

\* scheme.toLowerCase()
LowerScheme(scheme) == IF scheme = "Basic" THEN "basic" ELSE "bearer"

\* verifyToken(token): jwt.verify returns the payload or throws.
verifyTokenOk(token) == token.signed

\* A mutant of requireAuth: the scheme is not looked at.
requireAuthAnyScheme(header) ==
  IF header = NoHeader THEN "Authorization header missing"
  ELSE IF Len(header) < 2 \/ header[2] = EmptyToken
    THEN "Invalid authorization header"
  ELSE IF ~verifyTokenOk(header[2]) THEN "Invalid or expired token"
  ELSE NoError

\* requireAuth: NoError when it calls next(), else the message of its 401.
requireAuth(header) ==
  IF header = NoHeader THEN "Authorization header missing"
  ELSE IF \/ LowerScheme(header[1]) # "bearer"
          \/ Len(header) < 2
          \/ header[2] = EmptyToken
    THEN "Invalid authorization header"
  ELSE IF ~verifyTokenOk(header[2]) THEN "Invalid or expired token"
  ELSE NoError
\* -------------------------------------------------------------------- state
VARIABLES
  events,         \* the Event table: id -> record, for the stored ids
  registrations,  \* the registration ledger: <<userId, eventId>> -> its rows
  files,          \* the files in uploads/event-images
  now,            \* the clock
  nextId,         \* the number of event ids handed out
  nextFile,       \* the number of upload file names handed out
  pc,             \* per handler: where the request it serves stands
  req,            \* per handler: the request it serves and the handler's locals
  res,            \* per handler: the response to that request, once sent
  directory,      \* the User table: id -> record, for the registered ids
  auth            \* the Authorization header of the request at the door of the
                  \* routers (SpecAuth; the other specifications start behind
                  \* requireAuth)

vars ==
  <<events, registrations, files, now, nextId, nextFile, pc, req, res,
    directory, auth>>

\* req[p]: user is req.user.sub, draft is req.body, files the names of
\* req.files in upload order, err whether multer's callback got an error,
\* existing what findUnique returned (<<>> for null), updated what
\* prisma.event.update returned, now the handler's `now`, threw whether the
\* route caught an exception of the storage layer.
NoReq ==
  [op |-> "none", user |-> 0, eventId |-> 0, draft |-> NoDraft, files |-> <<>>,
   err |-> FALSE, existing |-> <<>>, updated |-> <<>>, now |-> 0,
   threw |-> FALSE]

Request(op, user, eventId, draft, uploaded) ==
  [op |-> op, user |-> user, eventId |-> eventId, draft |-> draft,
   files |-> uploaded, err |-> FALSE, existing |-> <<>>, updated |-> <<>>,
   now |-> 0, threw |-> FALSE]

NoRes ==
  [status |-> 0, message |-> NoError, events |-> <<>>, registrationCount |-> 0]

Response(status, message, evs, registrationCount) ==
  [status |-> status, message |-> message, events |-> evs,
   registrationCount |-> registrationCount]

Init ==
  /\ events = <<>>
  /\ registrations = [pair \in Users \X EventIds |-> 0]
  /\ files = {}
  /\ now = 0
  /\ nextId = 0
  /\ nextFile = 0
  /\ pc = [p \in Procs |-> "idle"]
  /\ req = [p \in Procs |-> NoReq]
  /\ res = [p \in Procs |-> NoRes]
  /\ directory = Registered
  /\ auth = NoHeader

Stored == DOMAIN events

\* count(eventId): the number of registration rows of an event.
RECURSIVE CountRows(_, _, _)
CountRows(ledger, id, users) ==
  IF users = {} THEN 0
  ELSE LET u == CHOOSE x \in users : TRUE
       IN  ledger[<<u, id>>] + CountRows(ledger, id, users \ {u})

count(ledger, id) == CountRows(ledger, id, Users)

\* Time passes.
Tick ==
  /\ now < MaxTime
  /\ now' = now + 1
  /\ UNCHANGED <<events, registrations, files, nextId, nextFile, pc, req, res>>
  /\ UNCHANGED <<directory, auth>>

\* res.status(...).json(...): handler p answers request r.
Reply(p, r, response) ==
  /\ req' = [req EXCEPT ![p] = r]
  /\ res' = [res EXCEPT ![p] = response]
  /\ pc' = [pc EXCEPT ![p] = "replied"]

\* The response has left: handler p is free for the next request.
Done(p) ==
  /\ pc[p] = "replied"
  /\ pc' = [pc EXCEPT ![p] = "idle"]
  /\ req' = [req EXCEPT ![p] = NoReq]
  /\ res' = [res EXCEPT ![p] = NoRes]
  /\ UNCHANGED <<events, registrations, files, now, nextId, nextFile>>
  /\ UNCHANGED <<directory, auth>>

\* A mutant of cleanupFiles: nothing is unlinked.
cleanupFilesNothing(disk, uploaded) == disk

\* A mutant of cleanupFiles: the whole upload directory is emptied.
cleanupFilesWholeDirectory(disk, uploaded) ==
  IF uploaded = <<>> THEN disk ELSE {}

\* cleanupFiles(req.files): the uploaded files are unlinked.
cleanupFiles(disk, uploaded) == disk \ Range(uploaded)

\* A mutant of deleteStoredImageFiles: nothing is unlinked.
deleteStoredImageFilesNothing(disk, imagePaths) == disk

\* deleteStoredImageFiles(imagePaths): the files the paths name are unlinked.
deleteStoredImageFiles(disk, imagePaths) == disk \ Range(imagePaths)

\* The record prisma.event.create stores for handleCreateEvent.
NewEvent(id, owner, data, imagePaths) ==
  [id |-> id,
   startsAt |-> data.time,
   registrationDeadline |-> data.registrationDeadline,
   attendanceLimit |-> data.attendanceLimit,
   ownerId |-> owner,
   images |-> stringifyImages(imagePaths)]

\* POST /events: the upload, then handleCreateEvent.  uploadErr: multer
\* refuses the upload; dbOk: prisma.event.create does not throw.
CreateEvent(p, u, n, uploadErr, draft, dbOk) ==
  /\ pc[p] = "idle"
  /\ nextFile + n <= MaxFiles
  /\ LET uploaded == Filenames(nextFile, n)
         r == [Request("create", u, 0, draft, uploaded) EXCEPT !.now = now]
         data == ParsedData(draft)
         scheduleError ==
           validateSchedule(data.time, data.registrationDeadline, now)
         id == nextId + 1
         event == NewEvent(id, u, data, uploaded)
         reject(rq, status, message) ==
           /\ files' = cleanupFiles(files \cup Range(uploaded), uploaded)
           /\ Reply(p, rq, Response(status, message, <<>>, 0))
           /\ UNCHANGED <<events, registrations, now, nextId, nextFile>>
     IN  IF uploadErr
           THEN reject([r EXCEPT !.err = TRUE], 400, "upload refused")
         ELSE IF ~SchemaOk(draft) THEN reject(r, 400, "Invalid input")
         ELSE IF scheduleError # NoError THEN reject(r, 400, scheduleError)
         ELSE IF ~dbOk
           THEN reject([r EXCEPT !.threw = TRUE], 500, "Internal server error")
         ELSE /\ nextId < MaxEvents
              /\ events' = (id :> event) @@ events
              /\ nextId' = id
              /\ nextFile' = nextFile + n
              /\ files' = files \cup Range(uploaded)
              /\ Reply(p, [r EXCEPT !.eventId = id],
                       Response(201, "Event created successfully",
                                <<toPublicEvent(event)>>, 0))
              /\ UNCHANGED <<registrations, now>>
  /\ UNCHANGED <<directory, auth>>

\* A mutant of OrderedByStartsAt: the rows come in descending order.
OrderedByStartsAtDescending(order) ==
  /\ Range(order) = Stored
  /\ \A i, j \in DOMAIN order :
       i < j => /\ order[i] # order[j]
                /\ events[order[i]].startsAt >= events[order[j]].startsAt

\* The orders findMany({orderBy: {startsAt: "asc"}}) can return the rows in.
OrderedByStartsAt(order) ==
  /\ Range(order) = Stored
  /\ \A i, j \in DOMAIN order :
       i < j => /\ order[i] # order[j]
                /\ events[order[i]].startsAt <= events[order[j]].startsAt

\* GET /events
ListEvents(p, u) ==
  /\ pc[p] = "idle"
  /\ \E order \in [1..Cardinality(Stored) -> Stored] :
       /\ OrderedByStartsAt(order)
       /\ Reply(p, Request("list", u, 0, NoDraft, <<>>),
                Response(200, NoError,
                         [i \in DOMAIN order |-> toPublicEvent(events[order[i]])],
                         0))
  /\ UNCHANGED <<events, registrations, files, now, nextId, nextFile>>
  /\ UNCHANGED <<directory, auth>>

\* GET /events/:eventId
GetEvent(p, u, id) ==
  /\ pc[p] = "idle"
  /\ LET r == Request("get", u, id, NoDraft, <<>>)
     IN  IF id \in Stored
           THEN Reply(p, r, Response(200, NoError, <<toPublicEvent(events[id])>>, 0))
           ELSE Reply(p, r, Response(404, "Event not found", <<>>, 0))
  /\ UNCHANGED <<events, registrations, files, now, nextId, nextFile>>
  /\ UNCHANGED <<directory, auth>>

\* A mutant of UpdatedEvent: the update writes the owner too, and clears it.
UpdatedEventOwnerCleared(row, data, imagePaths) ==
  [id |-> row.id,
   startsAt |-> data.time,
   registrationDeadline |-> data.registrationDeadline,
   attendanceLimit |-> data.attendanceLimit,
   ownerId |-> 0,
   images |-> stringifyImages(imagePaths)]

\* The row prisma.event.update leaves for handleUpdateEvent: id and ownerId
\* are not among the written fields.
UpdatedEvent(row, data, imagePaths) ==
  [id |-> row.id,
   startsAt |-> data.time,
   registrationDeadline |-> data.registrationDeadline,
   attendanceLimit |-> data.attendanceLimit,
   ownerId |-> row.ownerId,
   images |-> stringifyImages(imagePaths)]

\* PUT /events/:eventId, up to the await of findUnique: the upload, the
\* schema check and the read of the event.
UpdateEventBegin(p, u, id, n, uploadErr, draft) ==
  /\ pc[p] = "idle"
  /\ nextFile + n <= MaxFiles
  /\ LET uploaded == Filenames(nextFile, n)
         r == Request("update", u, id, draft, uploaded)
         reject(rq, status, message) ==
           /\ files' = cleanupFiles(files \cup Range(uploaded), uploaded)
           /\ Reply(p, rq, Response(status, message, <<>>, 0))
           /\ UNCHANGED nextFile
     IN  IF uploadErr
           THEN reject([r EXCEPT !.err = TRUE], 400, "upload refused")
         ELSE IF ~SchemaOk(draft) THEN reject(r, 400, "Invalid input")
         ELSE /\ files' = files \cup Range(uploaded)
              /\ nextFile' = nextFile + n
              /\ req' = [req EXCEPT ![p] =
                   [r EXCEPT !.existing =
                      IF id \in Stored THEN <<events[id]>> ELSE <<>>]]
              /\ pc' = [pc EXCEPT ![p] = "update_found"]
              /\ UNCHANGED res
  /\ UNCHANGED <<events, registrations, now, nextId>>
  /\ UNCHANGED <<directory, auth>>

\* A mutant of UpdateImagePaths: the uploaded images are added to the ones
\* the event had.
UpdateImagePathsAppend(uploaded, currentImages) == currentImages \o uploaded

\* The images handleUpdateEvent writes: the uploaded ones if there are any,
\* else the ones the event had.
UpdateImagePaths(uploaded, currentImages) ==
  IF Len(uploaded) > 0 THEN uploaded ELSE currentImages

\* handleUpdateEvent from findUnique's answer to the await of
\* prisma.event.update.  dbOk: the update does not throw for a reason of its
\* own (it always throws when the row is gone).
UpdateEventWrite(p, dbOk) ==
  /\ pc[p] = "update_found"
  /\ LET r == [req[p] EXCEPT !.now = now]
         id == r.eventId
         data == ParsedData(r.draft)
         scheduleError ==
           validateSchedule(data.time, data.registrationDeadline, now)
         reject(rq, status, message) ==
           /\ files' = cleanupFiles(files, r.files)
           /\ Reply(p, rq, Response(status, message, <<>>, 0))
           /\ UNCHANGED events
     IN  IF r.existing = <<>> THEN reject(r, 404, "Event not found")
         ELSE IF r.existing[1].ownerId # r.user
           THEN reject(r, 403, "You are not allowed to edit this event")
         ELSE IF scheduleError # NoError THEN reject(r, 400, scheduleError)
         ELSE IF ~dbOk \/ id \notin Stored
           THEN reject([r EXCEPT !.threw = TRUE], 500, "Internal server error")
         ELSE LET imagePaths ==
                    UpdateImagePaths(r.files, parseImages(r.existing[1].images))
                  updated == UpdatedEvent(events[id], data, imagePaths)
              IN  /\ events' = [events EXCEPT ![id] = updated]
                  /\ req' = [req EXCEPT ![p] = [r EXCEPT !.updated = <<updated>>]]
                  /\ pc' = [pc EXCEPT ![p] = "update_written"]
                  /\ UNCHANGED <<files, res>>
  /\ UNCHANGED <<registrations, now, nextId, nextFile>>
  /\ UNCHANGED <<directory, auth>>

\* handleUpdateEvent after prisma.event.update: the replaced image files are
\* unlinked and the updated event is sent.
UpdateEventFinish(p) ==
  /\ pc[p] = "update_written"
  /\ LET r == req[p]
         currentImages == parseImages(r.existing[1].images)
     IN  /\ files' = IF Len(r.files) > 0
                       THEN deleteStoredImageFiles(files, currentImages)
                       ELSE files
         /\ Reply(p, r, Response(200, "Event updated successfully",
                                 <<toPublicEvent(r.updated[1])>>, 0))
  /\ UNCHANGED <<events, registrations, now, nextId, nextFile>>
  /\ UNCHANGED <<directory, auth>>

\* DELETE /events/:eventId up to the await of findUnique.
DeleteEventBegin(p, u, id) ==
  /\ pc[p] = "idle"
  /\ req' = [req EXCEPT ![p] =
       [Request("delete", u, id, NoDraft, <<>>) EXCEPT !.existing =
          IF id \in Stored THEN <<events[id]>> ELSE <<>>]]
  /\ pc' = [pc EXCEPT ![p] = "delete_found"]
  /\ UNCHANGED <<events, registrations, files, now, nextId, nextFile, res>>
  /\ UNCHANGED <<directory, auth>>

\* The registration rows that go with a deleted event.
deleteAllForEvent(ledger, id) ==
  [pair \in DOMAIN ledger |-> IF pair[2] = id THEN 0 ELSE ledger[pair]]

\* A mutant of DeleteEventWrite: the owner of the event is not compared with
\* the caller.
DeleteEventWriteAnyCaller(p, dbOk) ==
  /\ pc[p] = "delete_found"
  /\ LET r == req[p]
         id == r.eventId
         reject(rq, status, message) ==
           /\ Reply(p, rq, Response(status, message, <<>>, 0))
           /\ UNCHANGED <<events, registrations>>
     IN  IF r.existing = <<>> THEN reject(r, 404, "Event not found")
         ELSE IF ~dbOk \/ id \notin Stored
           THEN reject([r EXCEPT !.threw = TRUE], 500, "Internal server error")
         ELSE /\ events' = [i \in Stored \ {id} |-> events[i]]
              /\ registrations' = deleteAllForEvent(registrations, id)
              /\ pc' = [pc EXCEPT ![p] = "delete_written"]
              /\ UNCHANGED <<req, res>>
  /\ UNCHANGED <<files, now, nextId, nextFile>>
  /\ UNCHANGED <<directory, auth>>

\* DELETE /events/:eventId from findUnique's answer to the await of
\* prisma.event.delete.  dbOk: the delete does not throw for a reason of its
\* own (it always throws when the row is gone).
DeleteEventWrite(p, dbOk) ==
  /\ pc[p] = "delete_found"
  /\ LET r == req[p]
         id == r.eventId
         reject(rq, status, message) ==
           /\ Reply(p, rq, Response(status, message, <<>>, 0))
           /\ UNCHANGED <<events, registrations>>
     IN  IF r.existing = <<>> THEN reject(r, 404, "Event not found")
         ELSE IF r.existing[1].ownerId # r.user
           THEN reject(r, 403, "You are not allowed to delete this event")
         ELSE IF ~dbOk \/ id \notin Stored
           THEN reject([r EXCEPT !.threw = TRUE], 500, "Internal server error")
         ELSE /\ events' = [i \in Stored \ {id} |-> events[i]]
              /\ registrations' = deleteAllForEvent(registrations, id)
              /\ pc' = [pc EXCEPT ![p] = "delete_written"]
              /\ UNCHANGED <<req, res>>
  /\ UNCHANGED <<files, now, nextId, nextFile>>
  /\ UNCHANGED <<directory, auth>>

\* DELETE /events/:eventId after prisma.event.delete: the image files of the
\* event that was read are unlinked.
DeleteEventFinish(p) ==
  /\ pc[p] = "delete_written"
  /\ files' = deleteStoredImageFiles(files, parseImages(req[p].existing[1].images))
  /\ Reply(p, req[p], Response(204, NoError, <<>>, 0))
  /\ UNCHANGED <<events, registrations, now, nextId, nextFile>>
  /\ UNCHANGED <<directory, auth>>

\* ------------------------------------------------ registration (README, spec)
\* POST /events/:eventId/register arrives.
RegisterBegin(p, u, id) ==
  /\ pc[p] = "idle"
  /\ req' = [req EXCEPT ![p] = Request("register", u, id, NoDraft, <<>>)]
  /\ pc' = [pc EXCEPT ![p] = "register"]
  /\ UNCHANGED <<events, registrations, files, now, nextId, nextFile, res>>
  /\ UNCHANGED <<directory, auth>>

\* A mutant of IsClosed: the deadline instant itself is still open.
IsClosedLate(t, registrationDeadline) == t > registrationDeadline

\* Registration is closed from the deadline on.
IsClosed(t, registrationDeadline) == t >= registrationDeadline

\* A mutant of IsFull: one registration too many is let in.
IsFullOffByOne(rows, attendanceLimit) == rows > attendanceLimit

\* No seat is left.
IsFull(rows, attendanceLimit) == rows >= attendanceLimit

\* A mutant of RegisterOutcome: a second registration of the same user is
\* let through (the ledger's uniqueness constraint is missing).
RegisterOutcomeNoDuplicateCheck(ledger, evs, u, id, t) ==
  IF id \notin DOMAIN evs THEN "NotFoundError"
  ELSE IF IsClosed(t, evs[id].registrationDeadline)
    THEN "RegistrationClosedError"
  ELSE IF IsFull(count(ledger, id), evs[id].attendanceLimit)
    THEN "CapacityExceededError"
  ELSE NoError

\* What Register answers on the state its transaction sees, the failures in
\* the order the contract lists them; the last one is the ledger's insert
\* refusing a pair it already holds.
RegisterOutcome(ledger, evs, u, id, t) ==
  IF id \notin DOMAIN evs THEN "NotFoundError"
  ELSE IF IsClosed(t, evs[id].registrationDeadline)
    THEN "RegistrationClosedError"
  ELSE IF IsFull(count(ledger, id), evs[id].attendanceLimit)
    THEN "CapacityExceededError"
  ELSE IF ledger[<<u, id>>] > 0 THEN "DuplicateRegistrationError"
  ELSE NoError

\* The status each outcome of Register is sent with.
RegisterStatus(outcome) ==
  CASE outcome = NoError -> 201
    [] outcome = "NotFoundError" -> 404
    [] outcome = "DuplicateRegistrationError" -> 409
    [] OTHER -> 400

\* The check-capacity-and-insert transaction of Register, one atomic step.
RegisterTransaction(p) ==
  /\ pc[p] = "register"
  /\ LET r == [req[p] EXCEPT !.now = now]
         pair == <<r.user, r.eventId>>
         outcome == RegisterOutcome(registrations, events, r.user, r.eventId, now)
         inserted == IF outcome = NoError
                       THEN [registrations EXCEPT ![pair] = @ + 1]
                       ELSE registrations
     IN  /\ registrations' = inserted
         /\ Reply(p, r,
                  Response(RegisterStatus(outcome), outcome, <<>>,
                           count(inserted, r.eventId)))
  /\ UNCHANGED <<events, files, now, nextId, nextFile>>
  /\ UNCHANGED <<directory, auth>>

\* ------------------------------------------------------------ specifications
\* The faults prisma can raise on a write that the handler reaches.
WriteOutcomes(draft) == IF SchemaOk(draft) THEN BOOLEAN ELSE {TRUE}

\* A request of the event routes arrives at handler p, with one of `uploads`
\* numbers of image files and, for Create and Update, a body among `drafts`.
Arrive(p, uploads, drafts) ==
  \/ \E u \in Users, n \in uploads :
       \/ CreateEvent(p, u, n, TRUE, NoDraft, TRUE)
       \/ \E draft \in drafts : \E dbOk \in WriteOutcomes(draft) :
            CreateEvent(p, u, n, FALSE, draft, dbOk)
  \/ \E u \in Users, id \in EventIds, n \in uploads :
       \/ UpdateEventBegin(p, u, id, n, TRUE, NoDraft)
       \/ \E draft \in drafts : UpdateEventBegin(p, u, id, n, FALSE, draft)
  \/ \E u \in Users, id \in EventIds : DeleteEventBegin(p, u, id)
  \/ \E u \in Users : ListEvents(p, u)
  \/ \E u \in Users, id \in EventIds : GetEvent(p, u, id)

\* Handler p goes on with the request it serves.
Continue(p) ==
  \/ \E dbOk \in BOOLEAN : UpdateEventWrite(p, dbOk)
  \/ UpdateEventFinish(p)
  \/ \E dbOk \in BOOLEAN : DeleteEventWrite(p, dbOk)
  \/ DeleteEventFinish(p)
  \/ Done(p)

\* Handler p takes a step of a Register request.
Register(p) ==
  \/ \E u \in Users, id \in EventIds : RegisterBegin(p, u, id)
  \/ RegisterTransaction(p)

\* Spec: the event routes, one request at a time (handler 1 serves them
\* all), with every body of Drafts and no image upload.
Next ==
  \/ Tick
  \/ Arrive(1, {0}, Drafts)
  \/ Continue(1)

Spec == Init /\ [][Next]_vars

\* SpecLedger: the event routes and Register, one request at a time, with
\* the bodies of LedgerDrafts and no image upload.
NextLedger ==
  \/ Tick
  \/ Arrive(1, {0}, LedgerDrafts)
  \/ Continue(1)
  \/ Register(1)

SpecLedger == Init /\ [][NextLedger]_vars

\* SpecImages: the event routes and Register, one request at a time, with up
\* to MaxUpload image files per request and the bodies of ImageDrafts.
NextImages ==
  \/ Arrive(1, 0..MaxUpload, ImageDrafts)
  \/ Continue(1)
  \/ Register(1)

SpecImages == Init /\ [][NextImages]_vars

\* SpecRace: two Register requests of different users for the same event are
\* in flight together while the event has exactly one seat left and its
\* registration is open; their transactions run in either order as time
\* passes.
InitRace ==
  \E owner \in Users, limit \in 1..MaxLimit, deadline \in 1..(MaxTime - 1),
     first \in Users, second \in Users :
    \E t \in 0..(deadline - 1), holders \in SUBSET Users :
      /\ first # second
      /\ Cardinality(holders) = limit - 1
      /\ events = (1 :> NewEvent(1, owner,
                     [time |-> MaxTime, registrationDeadline |-> deadline,
                      attendanceLimit |-> limit], <<>>))
      /\ registrations =
           [pair \in Users \X EventIds |->
              IF pair[2] = 1 /\ pair[1] \in holders THEN 1 ELSE 0]
      /\ files = {}
      /\ now = t
      /\ nextId = 1
      /\ nextFile = 0
      /\ pc = [p \in Procs |-> "register"]
      /\ req = [p \in Procs |->
                  Request("register", IF p = 1 THEN first ELSE second, 1,
                          NoDraft, <<>>)]
      /\ res = [p \in Procs |-> NoRes]
      /\ directory = Registered
      /\ auth = NoHeader

NextRace ==
  \/ Tick
  \/ \E p \in Procs : RegisterTransaction(p)

SpecRace == InitRace /\ [][NextRace]_vars

\* SpecConc: the owner's Update and Delete requests on one event that holds
\* an image, served by both handlers, which interleave at their awaits.
ConcDraft ==
  [textOk |-> TRUE, time |-> MaxTime, registrationDeadline |-> MaxTime - 1,
   attendanceLimit |-> 2]

InitConc ==
  /\ events = (1 :> NewEvent(1, 1, ParsedData(ConcDraft), Filenames(0, 1)))
  /\ registrations = [pair \in Users \X EventIds |-> 0]
  /\ files = Range(Filenames(0, 1))
  /\ now = 0
  /\ nextId = 1
  /\ nextFile = 1
  /\ pc = [p \in Procs |-> "idle"]
  /\ req = [p \in Procs |-> NoReq]
  /\ res = [p \in Procs |-> NoRes]
  /\ directory = Registered
  /\ auth = NoHeader

NextConc ==
  \E p \in Procs :
    \/ \E n \in 0..1 : UpdateEventBegin(p, 1, 1, n, FALSE, ConcDraft)
    \/ DeleteEventBegin(p, 1, 1)
    \/ Continue(p)

SpecConc == InitConc /\ [][NextConc]_vars

\* ------------------------------------------- accounts and profiles (users)
\* The bodies of POST /auth/register and PUT /profile.  schemaOk says whether
\* the fields other than universityEmail and interests pass their schema;
\* universityEmail is a string z.string().email() accepts.
NoProfileDraft ==
  [schemaOk |-> FALSE, universityEmail |-> Address(1), interests |-> Undefined]

\* The request records of the two routes: the fields of Request, and what
\* findUnique({where: {universityEmail}}) returned to handleProfileUpdate.
UserRequest(op, user, draft, uploaded) ==
  [op |-> op, user |-> user, eventId |-> 0, draft |-> draft,
   files |-> uploaded, err |-> FALSE, existing |-> <<>>, updated |-> <<>>,
   now |-> 0, threw |-> FALSE, emailTaken |-> <<>>]

\* prisma.user.findUnique({where: {universityEmail}}): the row, or <<>>.
findByEmail(rows, email) ==
  LET ids == {id \in DOMAIN rows : rows[id].universityEmail = email}
  IN  IF ids = {} THEN <<>> ELSE <<rows[CHOOSE id \in ids : TRUE]>>

\* prisma.user.findUnique({where: {id}}): the row, or <<>>.
findById(rows, id) == IF id \in DOMAIN rows THEN <<rows[id]>> ELSE <<>>

\* The UNIQUE constraint of "universityEmail": would a row of user id with
\* this email collide with another row?
EmailCollides(rows, id, email) ==
  \E other \in DOMAIN rows \ {id} : rows[other].universityEmail = email

\* The profileImageUrl of a request: the uploaded file, or 0 for none.
UploadedImage(uploaded) == IF uploaded = <<>> THEN 0 ELSE uploaded[1]

\* POST /auth/register up to the await of findUnique: the upload, the schema
\* check, the lower-casing and the domain check.
RegisterAccountBegin(p, n, uploadErr, draft) ==
  /\ pc[p] = "idle"
  /\ nextFile + n <= MaxFiles
  /\ LET uploaded == Filenames(nextFile, n)
         universityEmail == toLowerCase(draft.universityEmail)
         r == UserRequest("account", 0, draft, uploaded)
         reject(rq, status, message) ==
           /\ files' = cleanupFiles(files \cup Range(uploaded), uploaded)
           /\ Reply(p, rq, Response(status, message, <<>>, 0))
           /\ UNCHANGED nextFile
     IN  IF uploadErr
           THEN reject([r EXCEPT !.err = TRUE], 400, "upload refused")
         ELSE IF ~draft.schemaOk \/ ~RegisterInterestsOk(draft.interests)
           THEN reject(r, 400, "Invalid input")
         ELSE IF ~isAllowedDomain(universityEmail)
           THEN reject(r, 400, "University email must end with the domain")
         ELSE /\ files' = files \cup Range(uploaded)
              /\ nextFile' = nextFile + n
              /\ req' = [req EXCEPT ![p] =
                   [r EXCEPT !.existing = findByEmail(directory, universityEmail)]]
              /\ pc' = [pc EXCEPT ![p] = "account_found"]
              /\ UNCHANGED res
  /\ UNCHANGED <<events, registrations, now, nextId, directory>>
  /\ UNCHANGED auth

\* The row prisma.user.create stores for handleRegister.
NewUser(id, data, uploaded) ==
  [id |-> id,
   universityEmail |-> toLowerCase(data.universityEmail),
   interests |-> RegisterInterestsText(data.interests),
   profileImageUrl |-> UploadedImage(uploaded)]

\* handleRegister from findUnique's answer to the response: the 409, the
\* password hash and prisma.user.create, which throws when the storage fails
\* (~dbOk) or the UNIQUE constraint on universityEmail is violated.
RegisterAccountWrite(p, dbOk) ==
  /\ pc[p] = "account_found"
  /\ LET r == req[p]
         id == Cardinality(DOMAIN directory) + 1
         user == NewUser(id, r.draft, r.files)
         reject(rq, status, message) ==
           /\ files' = cleanupFiles(files, r.files)
           /\ Reply(p, rq, Response(status, message, <<>>, 0))
           /\ UNCHANGED <<directory, auth>>
     IN  IF r.existing # <<>>
           THEN reject(r, 409, "An account already exists")
         ELSE IF ~dbOk \/ EmailCollides(directory, id, user.universityEmail)
           THEN reject([r EXCEPT !.threw = TRUE], 500, "Internal server error")
         ELSE /\ id \in Users
              /\ directory' = (id :> user) @@ directory
              /\ Reply(p, [r EXCEPT !.user = id],
                       Response(201, NoError, <<toPublicUser(user)>>, 0))
              /\ UNCHANGED files
  /\ UNCHANGED <<events, registrations, now, nextId, nextFile>>
  /\ UNCHANGED auth

\* GET /profile
ProfileGet(p, u) ==
  /\ pc[p] = "idle"
  /\ LET r == [UserRequest("profile_get", u, NoProfileDraft, <<>>)
                 EXCEPT !.existing = findById(directory, u)]
     IN  IF r.existing = <<>>
           THEN Reply(p, r, Response(404, "User not found", <<>>, 0))
           ELSE Reply(p, r, Response(200, NoError,
                                     <<toPublicUser(r.existing[1])>>, 0))
  /\ UNCHANGED <<events, registrations, files, now, nextId, nextFile, directory>>
  /\ UNCHANGED auth

\* PUT /profile up to the await of findUnique({where: {id}}): the upload
\* (multer leaves no file behind when it reports an error), the schema check
\* with the interests preprocess, the lower-casing and the domain check.
ProfileUpdateBegin(p, u, n, uploadErr, draft) ==
  /\ pc[p] = "idle"
  /\ nextFile + n <= MaxFiles
  /\ LET uploaded == Filenames(nextFile, n)
         r == UserRequest("profile", u, draft, uploaded)
         reject(rq, status, message) ==
           /\ files' = cleanupFiles(files \cup Range(uploaded), uploaded)
           /\ Reply(p, rq, Response(status, message, <<>>, 0))
           /\ UNCHANGED nextFile
     IN  IF uploadErr
           THEN reject([r EXCEPT !.err = TRUE], 400, "upload refused")
         ELSE IF \/ ~draft.schemaOk
                 \/ /\ draft.interests # Undefined
                    /\ ~ProfileInterestsOk(preprocessInterests(draft.interests))
           THEN reject(r, 400, "Invalid input")
         ELSE IF ~isAllowedDomain(toLowerCase(draft.universityEmail))
           THEN reject(r, 400, "University email must end with the domain")
         ELSE /\ files' = files \cup Range(uploaded)
              /\ nextFile' = nextFile + n
              /\ req' = [req EXCEPT ![p] =
                   [r EXCEPT !.existing = findById(directory, u)]]
              /\ pc' = [pc EXCEPT ![p] = "profile_found"]
              /\ UNCHANGED res
  /\ UNCHANGED <<events, registrations, now, nextId, directory>>
  /\ UNCHANGED auth

\* handleProfileUpdate from the answer of findUnique({where: {id}}) to the
\* await of findUnique({where: {universityEmail}}), which is asked only when
\* the email differs from the stored one.
ProfileUpdateCheck(p) ==
  /\ pc[p] = "profile_found"
  /\ LET r == req[p]
         normalizedUniversityEmail == toLowerCase(r.draft.universityEmail)
     IN  IF r.existing = <<>>
           THEN /\ files' = cleanupFiles(files, r.files)
                /\ Reply(p, r, Response(404, "User not found", <<>>, 0))
           ELSE /\ req' = [req EXCEPT ![p] =
                     [r EXCEPT !.emailTaken =
                        IF normalizedUniversityEmail
                             # r.existing[1].universityEmail
                          THEN findByEmail(directory, normalizedUniversityEmail)
                          ELSE <<>>]]
                /\ pc' = [pc EXCEPT ![p] = "profile_checked"]
                /\ UNCHANGED <<files, res>>
  /\ UNCHANGED <<events, registrations, now, nextId, nextFile, directory>>
  /\ UNCHANGED auth

\* The row prisma.user.update writes for handleProfileUpdate.
UpdatedUser(row, data, uploaded) ==
  [id |-> row.id,
   universityEmail |-> toLowerCase(data.universityEmail),
   interests |->
     JoinStrings(IF data.interests = Undefined THEN <<>>
                 ELSE preprocessInterests(data.interests)),
   profileImageUrl |->
     IF uploaded # <<>> THEN UploadedImage(uploaded) ELSE row.profileImageUrl]

\* handleProfileUpdate, lines 162-171: when a file was uploaded and the user
\* had a profile image, the previous image file is unlinked.
ReplacedImageUnlinked(disk, uploaded, existingUser) ==
  IF uploaded # <<>> /\ existingUser.profileImageUrl # 0
    THEN disk \ {existingUser.profileImageUrl}
    ELSE disk

\* handleProfileUpdate from the answer of the email lookup to the response:
\* the 409, the unlink of the previous image, and prisma.user.update, which
\* throws when the storage fails (~dbOk) or the UNIQUE constraint on
\* universityEmail is violated; router.put's catch unlinks nothing.
ProfileUpdateWrite(p, dbOk) ==
  /\ pc[p] = "profile_checked"
  /\ LET r == req[p]
         existingUser == r.existing[1]
         updated == UpdatedUser(directory[r.user], r.draft, r.files)
     IN  IF r.emailTaken # <<>> /\ r.emailTaken[1].id # r.user
           THEN /\ files' = cleanupFiles(files, r.files)
                /\ Reply(p, r, Response(409, "University email already in use",
                                        <<>>, 0))
                /\ UNCHANGED <<directory, auth>>
         ELSE /\ files' = ReplacedImageUnlinked(files, r.files, existingUser)
              /\ IF ~dbOk \/ EmailCollides(directory, r.user,
                                           updated.universityEmail)
                   THEN /\ Reply(p, [r EXCEPT !.threw = TRUE],
                                 Response(500, "Internal server error", <<>>, 0))
                        /\ UNCHANGED <<directory, auth>>
                   ELSE /\ directory' = [directory EXCEPT ![r.user] = updated]
                        /\ Reply(p, [r EXCEPT !.updated = <<updated>>],
                                 Response(200, NoError,
                                          <<toPublicUser(updated)>>, 0))
  /\ UNCHANGED <<events, registrations, now, nextId, nextFile>>
  /\ UNCHANGED auth

\* The state before anyone has registered.
InitDirectory ==
  /\ events = <<>>
  /\ registrations = [pair \in Users \X EventIds |-> 0]
  /\ files = {}
  /\ now = 0
  /\ nextId = 0
  /\ nextFile = 0
  /\ pc = [p \in Procs |-> "idle"]
  /\ req = [p \in Procs |-> NoReq]
  /\ res = [p \in Procs |-> NoRes]
  /\ directory = <<>>
  /\ auth = NoHeader

\* SpecEmails: account registrations and profile updates with every email,
\* served by both handlers, which interleave at their awaits.
EmailDrafts ==
  [schemaOk : {TRUE}, universityEmail : Emails, interests : {Undefined}]

NextEmails ==
  \E p \in Procs :
    \/ \E draft \in EmailDrafts : RegisterAccountBegin(p, 0, FALSE, draft)
    \/ \E dbOk \in BOOLEAN : RegisterAccountWrite(p, dbOk)
    \/ \E u \in DOMAIN directory, draft \in EmailDrafts :
         ProfileUpdateBegin(p, u, 0, FALSE, draft)
    \/ ProfileUpdateCheck(p)
    \/ \E dbOk \in BOOLEAN : ProfileUpdateWrite(p, dbOk)
    \/ Done(p)

SpecEmails == InitDirectory /\ [][NextEmails]_vars

\* SpecProfile: account registrations and profile updates, one request at a
\* time, with and without a profile image and with interest lists around the
\* limits of the two schemas.
RegisterInterestInputs ==
  {Undefined, InterestItems(0), InterestItems(RegisterMaxInterests),
   InterestItems(RegisterMaxInterests + 1), <<<<1, Comma, 2>>>>}

ProfileInterestInputs ==
  {Undefined, InterestItems(2), InterestItems(RegisterMaxInterests),
   InterestItems(ProfileMaxInterests), InterestItems(ProfileMaxInterests + 1),
   <<<<1, Comma, Space, 2>>>>, <<<<1, Comma>>>>}

AccountDrafts ==
  [schemaOk : BOOLEAN, universityEmail : {Address(u) : u \in Users},
   interests : RegisterInterestInputs]

ProfileDrafts ==
  [schemaOk : BOOLEAN, universityEmail : {Address(u) : u \in Users},
   interests : ProfileInterestInputs]

NextProfile ==
  \/ \E n \in 0..1, draft \in AccountDrafts :
       RegisterAccountBegin(1, n, FALSE, draft)
  \/ RegisterAccountBegin(1, 0, TRUE, NoProfileDraft)
  \/ \E dbOk \in BOOLEAN : RegisterAccountWrite(1, dbOk)
  \/ \E u \in DOMAIN directory : ProfileGet(1, u)
  \/ \E u \in DOMAIN directory, n \in 0..1, draft \in ProfileDrafts :
       ProfileUpdateBegin(1, u, n, FALSE, draft)
  \/ \E u \in DOMAIN directory : ProfileUpdateBegin(1, u, 0, TRUE, NoProfileDraft)
  \/ ProfileUpdateCheck(1)
  \/ \E dbOk \in BOOLEAN : ProfileUpdateWrite(1, dbOk)
  \/ Done(1)

SpecProfile == InitDirectory /\ [][NextProfile]_vars

\* SpecAuth: requests for the event and profile routes arrive with every
\* Authorization header; requireAuth answers 401 or lets the handler run for
\* the user the token names.  One request at a time.
Operations ==
  {"create", "update", "delete", "list", "get", "profile_get", "profile"}

\* A request with header h is at the door.
Receive(h) ==
  /\ \A p \in Procs : pc[p] = "idle"
  /\ auth' = h
  /\ UNCHANGED <<events, registrations, files, now, nextId, nextFile, pc, req,
                 res, directory>>

\* requireAuth answers the request itself: 401, no handler runs.
Unauthorized(p, op) ==
  /\ pc[p] = "idle"
  /\ requireAuth(auth) # NoError
  /\ Reply(p, Request(op, 0, 0, NoDraft, <<>>),
           Response(401, requireAuth(auth), <<>>, 0))
  /\ UNCHANGED <<events, registrations, files, now, nextId, nextFile,
                 directory, auth>>

AuthProfileDraft ==
  [schemaOk |-> TRUE, universityEmail |-> Address(1), interests |-> Undefined]

\* requireAuth calls next(): the handler of the route runs with req.user set
\* to the payload of the token.
Authorized(p) ==
  /\ requireAuth(auth) = NoError
  /\ LET u == auth[2].sub
     IN  \/ \E n \in 0..1 : CreateEvent(p, u, n, FALSE, ConcDraft, TRUE)
         \/ \E id \in EventIds, n \in 0..1 :
              UpdateEventBegin(p, u, id, n, FALSE, ConcDraft)
         \/ \E id \in EventIds : DeleteEventBegin(p, u, id)
         \/ ListEvents(p, u)
         \/ \E id \in EventIds : GetEvent(p, u, id)
         \/ ProfileGet(p, u)
         \/ \E n \in 0..1 : ProfileUpdateBegin(p, u, n, FALSE, AuthProfileDraft)

NextAuth ==
  \/ \E h \in Headers : Receive(h)
  \/ \E op \in Operations : Unauthorized(1, op)
  \/ Authorized(1)
  \/ Continue(1)
  \/ ProfileUpdateCheck(1)
  \/ \E dbOk \in BOOLEAN : ProfileUpdateWrite(1, dbOk)

SpecAuth == Init /\ [][NextAuth]_vars

\* ------------------------------------------------------------------- claims
\* The request handler p has just answered.
Answered(p, op) == pc[p] = "replied" /\ req[p].op = op

\* A body whose registration deadline lies before its start time.
DeadlineBeforeStart(draft) ==
  /\ draft.time # InvalidDate
  /\ draft.registrationDeadline # InvalidDate
  /\ draft.registrationDeadline < draft.time

C1_StoredOrder ==
  \A id \in Stored : events[id].registrationDeadline < events[id].startsAt

C1_Rejected ==
  \A p \in Procs :
    /\ (Answered(p, "create") \/ Answered(p, "update"))
    /\ ~DeadlineBeforeStart(req[p].draft)
    => res[p].status \in {400, 403, 404}

C1_StoreKept ==
  \A p \in Procs :
    /\ req'[p].op \in {"create", "update"}
    /\ ~DeadlineBeforeStart(req'[p].draft)
    => events' = events

\* C1: every stored event has its registration deadline strictly before its
\* start time, and a Create or Update whose body violates this is rejected
\* and no step of it changes the event store.
C1_ScheduleOrder ==
  [](C1_StoredOrder /\ C1_Rejected) /\ [][C1_StoreKept]_vars

\* C1 witness: the owner's Update of a stored event with a deadline at or
\* after the start time has been answered 400.
C1_Witness ==
  \E p \in Procs :
    /\ Answered(p, "update")
    /\ SchemaOk(req[p].draft)
    /\ req[p].draft.registrationDeadline >= req[p].draft.time
    /\ req[p].existing # <<>>
    /\ req[p].existing[1].ownerId = req[p].user
    /\ req[p].eventId \in Stored
    /\ res[p].status = 400

\* C2 (as claimed): for every stored event the number of stored
\* registrations never exceeds the event's attendanceLimit.
C2_CapacityRespected ==
  \A id \in Stored : count(registrations, id) <= events[id].attendanceLimit

\* Handler p's Register transaction runs in this step.
RegisterStep(p) == pc[p] = "register" /\ pc'[p] = "replied"

\* ... for a user who already holds a registration for the event.
DuplicateStep(p) ==
  /\ RegisterStep(p)
  /\ registrations[<<req[p].user, req[p].eventId>>] > 0

C4_AtMostOne == \A pair \in DOMAIN registrations : registrations[pair] <= 1

C4_AlwaysDuplicateError ==
  \A p \in Procs :
    DuplicateStep(p) =>
      /\ res'[p].status = 409
      /\ res'[p].message = "DuplicateRegistrationError"
      /\ registrations' = registrations

C4_DuplicateRefused ==
  \A p \in Procs :
    DuplicateStep(p) =>
      LET event == events[req[p].eventId]
          closed == now >= event.registrationDeadline
          full == count(registrations, req[p].eventId) >= event.attendanceLimit
      IN  /\ registrations' = registrations
          /\ res'[p].registrationCount = count(registrations, req[p].eventId)
          /\ res'[p].message =
               IF closed THEN "RegistrationClosedError"
               ELSE IF full THEN "CapacityExceededError"
               ELSE "DuplicateRegistrationError"
          /\ res'[p].status = IF closed \/ full THEN 400 ELSE 409

C5_ClosedRefused ==
  \A p \in Procs :
    /\ RegisterStep(p)
    /\ req[p].eventId \in Stored
    /\ now >= events[req[p].eventId].registrationDeadline
    => /\ res'[p].status = 400
       /\ res'[p].message = "RegistrationClosedError"
       /\ registrations' = registrations

\* C5: a Register on a stored event whose transaction runs at or after the
\* registration deadline is answered RegistrationClosedError (400) and adds
\* no registration, whatever the capacity left and whoever the user.
C5_ClosedAfterDeadline == [][C5_ClosedRefused]_vars

\* C5 witness: RegistrationClosedError was answered to a user who is already
\* registered, for an event that still has a seat.
C5_Witness ==
  \E p \in Procs :
    /\ Answered(p, "register")
    /\ res[p].message = "RegistrationClosedError"
    /\ req[p].eventId \in Stored
    /\ registrations[<<req[p].user, req[p].eventId>>] = 1
    /\ count(registrations, req[p].eventId)
         < events[req[p].eventId].attendanceLimit

\* Both Register requests have been answered, and both transactions ran
\* while registration was open.
BothAnsweredInTime ==
  /\ \A p \in Procs : Answered(p, "register")
  /\ \A p \in Procs :
       req[p].now < events[req[p].eventId].registrationDeadline

Holds(p) == registrations[<<req[p].user, req[p].eventId>>] > 0

C3_OneWins ==
  \E p \in Procs :
    /\ res[p].status = 201
    /\ res[p].registrationCount = events[req[p].eventId].attendanceLimit
    /\ count(registrations, req[p].eventId)
         = events[req[p].eventId].attendanceLimit
    /\ \A q \in Procs \ {p} :
         /\ res[q].status \in {400, 409}
         /\ res[q].message \in
              {"CapacityExceededError", "DuplicateRegistrationError"}

C3_BothDuplicate ==
  /\ \A p \in Procs :
       res[p].status = 409 /\ res[p].message = "DuplicateRegistrationError"
  /\ \A p \in Procs :
       count(registrations, req[p].eventId)
         = events[req[p].eventId].attendanceLimit - 1

\* C3 (as claimed): two concurrent Register calls of different users for an
\* event with exactly one seat left always end with exactly one success and
\* one CapacityExceededError or DuplicateRegistrationError.
C3_Original == (\A p \in Procs : Answered(p, "register")) => C3_OneWins

\* C3 (amended): of two concurrent Register calls of different users for an
\* event with exactly one seat left, whose transactions both run before the
\* deadline, exactly one succeeds (and reports a full event) and the other
\* fails with CapacityExceededError or DuplicateRegistrationError, in either
\* order, when at most one of the callers is registered already; when both
\* are, both fail with DuplicateRegistrationError and the seat stays free.
C3_ExactlyOneSuccess ==
  /\ (\E p \in Procs : ~Holds(p)) => [](BothAnsweredInTime => C3_OneWins)
  /\ (\A p \in Procs : Holds(p)) => [](BothAnsweredInTime => C3_BothDuplicate)

\* C3 witness: both calls are answered, one with 201 and the other with
\* CapacityExceededError.
C3_Witness ==
  /\ BothAnsweredInTime
  /\ \E p \in Procs, q \in Procs :
       /\ res[p].status = 201
       /\ res[q].message = "CapacityExceededError"

\* The image files a Delete or Update found the event to hold.
FoundImages(p) == parseImages(req[p].existing[1].images)

C6_Deleted ==
  \A p \in Procs :
    Answered(p, "delete") /\ res[p].status = 204 =>
      /\ req[p].eventId \notin Stored
      /\ \A u \in Users : registrations[<<u, req[p].eventId>>] = 0
      /\ Range(FoundImages(p)) \cap files = {}

C6_NothingLeft ==
  /\ \A id \in EventIds \ Stored :
       \A u \in Users : registrations[<<u, id>>] = 0
  /\ (\A p \in Procs : pc[p] \in {"idle", "replied"}) =>
       files = UNION {Range(parseImages(events[id].images)) : id \in Stored}

C6_GetNotFound ==
  \A p \in Procs :
    Answered(p, "get") /\ req[p].eventId \notin Stored =>
      res[p].status = 404 /\ res[p].events = <<>>

C6_StaysDeleted ==
  \A id \in EventIds : id <= nextId /\ id \notin Stored => id \notin Stored'

\* C6: once the owner's Delete is answered 204 the event record, every
\* registration of the event and every image file it held are gone; a
\* deleted id is never stored again and a Get on an id that is not stored is
\* answered 404.
C6_DeleteRemovesAll ==
  [](C6_Deleted /\ C6_NothingLeft /\ C6_GetNotFound) /\ [][C6_StaysDeleted]_vars

\* C6 witness: the Delete of an event that held image files has been
\* answered 204.
C6_Witness ==
  \E p \in Procs :
    /\ Answered(p, "delete")
    /\ res[p].status = 204
    /\ FoundImages(p) # <<>>

C7_NonOwnerForbidden ==
  \A p \in Procs :
    /\ Answered(p, "update")
    /\ req[p].eventId \in Stored
    /\ events[req[p].eventId].ownerId # req[p].user
    => res[p].status = 403

C7_RecordKept ==
  \A p \in Procs :
    /\ req'[p].op = "update"
    /\ req'[p].eventId \in Stored
    /\ events[req'[p].eventId].ownerId # req'[p].user
    => events' = events

\* C7 (as claimed): an Update of a stored event by a caller who is not its
\* owner is answered 403 whatever the body, and leaves the record unchanged.
C7_Original == []C7_NonOwnerForbidden /\ [][C7_RecordKept]_vars

\* What the claim asks of a Create body at the handler's time t.
C8_ClaimedCondition(draft, t) ==
  /\ DeadlineBeforeStart(draft)
  /\ draft.time > t
  /\ draft.registrationDeadline > t
  /\ draft.attendanceLimit % 2 = 0
  /\ draft.attendanceLimit > 0

\* C8 (as claimed): Create succeeds if and only if the deadline is before the
\* start, both are later than now and attendanceLimit is a positive integer;
\* otherwise it is answered 400.
C8_Original ==
  \A p \in Procs :
    Answered(p, "create") =>
      /\ res[p].status = 201 <=> C8_ClaimedCondition(req[p].draft, req[p].now)
      /\ res[p].status # 201 => res[p].status = 400

C8_Answer ==
  \A p \in Procs :
    Answered(p, "create") =>
      LET r == req[p]
          accepted ==
            /\ ~r.err
            /\ r.draft.textOk
            /\ C8_ClaimedCondition(r.draft, r.now)
            /\ ~r.threw
      IN  /\ res[p].status = 201 <=> accepted
          /\ res[p].status # 201 =>
               /\ res[p].status = IF r.threw THEN 500 ELSE 400
               /\ res[p].events = <<>>
          /\ res[p].status = 201 =>
               /\ r.eventId = nextId
               /\ r.eventId \in Stored
               /\ events[r.eventId].startsAt = r.draft.time
               /\ events[r.eventId].registrationDeadline
                    = r.draft.registrationDeadline
               /\ 2 * events[r.eventId].attendanceLimit = r.draft.attendanceLimit
               /\ events[r.eventId].ownerId = r.user
               /\ res[p].events = <<toPublicEvent(events[r.eventId])>>
               /\ res[p].events[1].registrationCount = 0

C8_Persisted ==
  \A p \in Procs :
    pc[p] = "idle" /\ req'[p].op = "create" =>
      IF res'[p].status = 201
        THEN /\ nextId' = nextId + 1
             /\ nextId' \notin Stored
             /\ Stored' = Stored \cup {nextId'}
             /\ \A id \in Stored : events'[id] = events[id]
        ELSE events' = events /\ nextId' = nextId

\* C8 (amended): Create succeeds (201), persisting exactly one new event that
\* it reports with registrationCount = 0, if and only if the upload is
\* accepted, the required text fields pass the schema, both dates parse, the
\* deadline is before the start, both are later than now, attendanceLimit is
\* a positive integer and the insert does not throw; otherwise no event is
\* persisted and the answer is 400, or 500 when the insert threw.
C8_CreateValidated == []C8_Answer /\ [][C8_Persisted]_vars

\* C8 witness: a Create has been answered 201 and its event is stored.
C8_Witness ==
  \E p \in Procs :
    /\ Answered(p, "create")
    /\ res[p].status = 201
    /\ req[p].eventId \in Stored

\* C9: after a successful Update with at least one uploaded image the
\* event's images are the uploaded ones in upload order, their files are on
\* disk and the files of the previous images are gone; after a successful
\* Update without an image the event's images are the ones it had.
C9_ImagesReplaced ==
  \A p \in Procs :
    Answered(p, "update") /\ res[p].status = 200 =>
      LET stored == parseImages(events[req[p].eventId].images)
      IN  /\ res[p].events[1].images = stored
          /\ IF Len(req[p].files) > 0
               THEN /\ stored = req[p].files
                    /\ Range(req[p].files) \subseteq files
                    /\ Range(FoundImages(p)) \cap files = {}
               ELSE /\ stored = FoundImages(p)
                    /\ Range(stored) \subseteq files

\* C9 witness: an Update with MaxUpload images of an event that held an
\* image has been answered 200.
C9_Witness ==
  \E p \in Procs :
    /\ Answered(p, "update")
    /\ res[p].status = 200
    /\ Len(req[p].files) = MaxUpload
    /\ FoundImages(p) # <<>>

C10_Listed ==
  \A p \in Procs :
    Answered(p, "list") =>
      LET out == res[p].events
      IN  /\ res[p].status = 200
          /\ Len(out) = Cardinality(Stored)
          /\ {out[i].id : i \in DOMAIN out} = Stored
          /\ \A i \in DOMAIN out : out[i] = toPublicEvent(events[out[i].id])
          /\ \A i, j \in DOMAIN out :
               i < j => out[i].startsAt <= out[j].startsAt

C10_ReadOnly ==
  \A p \in Procs :
    pc[p] = "idle" /\ req'[p].op = "list" =>
      UNCHANGED <<events, registrations, files, nextId>>

\* C10: List answers with every stored event exactly once, in ascending
\* order of startsAt, and changes nothing that is stored.
C10_ListOrdered == []C10_Listed /\ [][C10_ReadOnly]_vars

\* C10 witness: a List of two events has been answered in which the event
\* created later starts earlier and comes first.
C10_Witness ==
  \E p \in Procs :
    /\ Answered(p, "list")
    /\ Len(res[p].events) = 2
    /\ res[p].events[1].id > res[p].events[2].id
    /\ res[p].events[1].startsAt < res[p].events[2].startsAt

\* The image files the stored events refer to.
ReferencedFiles == UNION {Range(parseImages(events[id].images)) : id \in Stored}

C13_ImagesOnDisk == ReferencedFiles \subseteq files

C13_FailedWrite ==
  \A p \in Procs :
    /\ pc[p] = "update_found"
    /\ req'[p].threw
    => /\ res'[p].status = 500
       /\ events' = events
       /\ ReferencedFiles \subseteq files'

C13_UnlinkAfterWrite ==
  \A p \in Procs :
    pc[p] = "update_found" /\ req[p].existing # <<>> =>
      Range(FoundImages(p)) \cap files \subseteq files'

\* C13: when the storage write of an Update that carries new images throws,
\* the event record is unchanged and all the image files the stored events
\* refer to are still on disk; the step that writes the record unlinks none
\* of the previous image files, and in every state each image a stored event
\* refers to is on disk.
C13_FailedUpdateKeepsImages ==
  []C13_ImagesOnDisk /\ [][C13_FailedWrite /\ C13_UnlinkAfterWrite]_vars

\* C13 witness: an Update with new images of an event that holds images has
\* been answered 500 after its write threw, and the old files are on disk.
C13_Witness ==
  \E p \in Procs :
    /\ Answered(p, "update")
    /\ res[p].status = 500
    /\ req[p].threw
    /\ Len(req[p].files) > 0
    /\ FoundImages(p) # <<>>
    /\ Range(FoundImages(p)) \subseteq files

C14_NotFound ==
  \A p \in Procs :
    /\ \E op \in {"update", "delete", "get"} : Answered(p, op)
    /\ req[p].eventId \notin Stored
    /\ ~req[p].err
    => res[p].status = 404

C14_StoreKept ==
  \A p \in Procs :
    /\ req'[p].op \in {"update", "delete", "get"}
    /\ req'[p].eventId \notin Stored
    => events' = events

\* C14 (as claimed): an Update, Delete or Get on an event id that is not
\* stored, whose upload (if any) was accepted, is answered 404 whoever calls
\* and whatever the body, and leaves the event store unchanged.
C14_Original == []C14_NotFound /\ [][C14_StoreKept]_vars

\* A Delete by someone else than the owner of the event it found.
ForeignDelete(r) ==
  /\ r.op = "delete"
  /\ r.existing # <<>>
  /\ r.existing[1].ownerId # r.user

C15_Forbidden ==
  \A p \in Procs :
    Answered(p, "delete") /\ ForeignDelete(req[p]) =>
      /\ res[p].status = 403
      /\ req[p].eventId \in Stored
      /\ events[req[p].eventId] = req[p].existing[1]

C15_AllKept ==
  \A p \in Procs :
    ForeignDelete(req'[p]) => UNCHANGED <<events, registrations, files>>

\* C15: a Delete of a stored event by a caller who is not its owner is
\* answered 403, and no step of it changes the event record, a registration
\* or an image file.
C15_ForeignDeleteRefused == []C15_Forbidden /\ [][C15_AllKept]_vars

\* C15 witness: a Delete by a non-owner of an event that holds an image and
\* a registration has been answered 403.
C15_Witness ==
  \E p \in Procs :
    /\ Answered(p, "delete")
    /\ ForeignDelete(req[p])
    /\ res[p].status = 403
    /\ FoundImages(p) # <<>>
    /\ Range(FoundImages(p)) \subseteq files
    /\ count(registrations, req[p].eventId) > 0

\* C17: when a Create or Update is answered with a failure, none of the
\* files uploaded with it is on disk any more; when it is answered with
\* success, every file uploaded with it is on disk and is one of the images
\* of the stored event.
C17_UploadsSettled ==
  \A p \in Procs :
    Answered(p, "create") \/ Answered(p, "update") =>
      IF res[p].status \in {200, 201}
        THEN /\ req[p].eventId \in Stored
             /\ Range(req[p].files) \subseteq files
             /\ Range(req[p].files)
                  \subseteq Range(parseImages(events[req[p].eventId].images))
        ELSE /\ res[p].status \in {400, 403, 404, 500}
             /\ Range(req[p].files) \cap files = {}

\* C17 witness: an Update that carried MaxUpload files has been answered with
\* a failure after the event was read.
C17_Witness ==
  \E p \in Procs :
    /\ Answered(p, "update")
    /\ res[p].status \in {403, 404, 500}
    /\ Len(req[p].files) = MaxUpload
    /\ Range(req[p].files) \cap files = {}

C20_OwnerIsCreator ==
  \A p \in Procs :
    Answered(p, "create") /\ res[p].status = 201 =>
      events[req[p].eventId].ownerId = req[p].user

C20_OnlyOwnerWrites ==
  \A p \in Procs :
    \/ Answered(p, "update") /\ res[p].status = 200
    \/ Answered(p, "delete") /\ res[p].status = 204
    => req[p].user = req[p].existing[1].ownerId

C20_OwnerKept ==
  \A id \in Stored \cap Stored' : events'[id].ownerId = events[id].ownerId

\* C20: the ownerId of a stored event is the user who created it, no step
\* changes the ownerId of an event that stays stored, and only that user's
\* Update or Delete of the event succeeds.
C20_OwnerNeverChanges ==
  [](C20_OwnerIsCreator /\ C20_OnlyOwnerWrites) /\ [][C20_OwnerKept]_vars

\* C20 witness: an Update that changed the event's schedule or limit has
\* been answered 200 and the event has the owner it had.
C20_Witness ==
  \E p \in Procs :
    /\ Answered(p, "update")
    /\ res[p].status = 200
    /\ events[req[p].eventId] # req[p].existing[1]
    /\ events[req[p].eventId].ownerId = req[p].existing[1].ownerId

\* C19 (as claimed): when no Update or Delete is in service any more, every
\* image a stored event refers to is on disk and every file on disk is an
\* image of a stored event.
C19_Original ==
  (\A p \in Procs : pc[p] \in {"idle", "replied"}) => ReferencedFiles = files

\* The email an account or profile request asks for, as it would be stored.
AskedEmail(r) == toLowerCase(r.draft.universityEmail)

C11_Unique ==
  \A a, b \in DOMAIN directory :
    a # b => directory[a].universityEmail # directory[b].universityEmail

C11_LowercaseAllowed ==
  \A a \in DOMAIN directory :
    /\ ~directory[a].universityEmail.caps
    /\ ~directory[a].universityEmail.domainCaps
    /\ directory[a].universityEmail.domain = ALLOWED_EMAIL_DOMAIN.domain

\* Handler p answers an account registration or a profile update.
AnswersUserRequest(p) ==
  /\ pc[p] # "replied"
  /\ pc'[p] = "replied"
  /\ req'[p].op \in {"account", "profile"}

C11_Refused ==
  \A p \in Procs :
    AnswersUserRequest(p) =>
      /\ AskedEmail(req'[p]).domain # ALLOWED_EMAIL_DOMAIN.domain =>
           res'[p].status = 400 /\ directory' = directory
      /\ /\ AskedEmail(req'[p]).domain = ALLOWED_EMAIL_DOMAIN.domain
         /\ \E other \in DOMAIN directory :
              /\ other # req'[p].user
              /\ directory[other].universityEmail = AskedEmail(req'[p])
         => res'[p].status = 409 /\ directory' = directory

\* C11 (as claimed): no two users have the same university email, every
\* stored university email is lowercase and of the allowed domain, and a
\* registration or profile update that would break this is answered 400 (the
\* domain) or 409 (a collision) and leaves the user directory unchanged.
C11_Original ==
  [](C11_Unique /\ C11_LowercaseAllowed) /\ [][C11_Refused]_vars

\* C12 (as claimed): every stored user has at most 10 interests.
C12_Original ==
  \A u \in DOMAIN directory :
    Len(PublicInterests(directory[u].interests)) <= 10

\* C18 (as claimed): in every state the profile image a stored user refers
\* to is a file on disk.
C18_Original ==
  \A u \in DOMAIN directory :
    directory[u].profileImageUrl # 0 => directory[u].profileImageUrl \in files

\* The header is missing, names another scheme than Bearer, or carries no
\* token that passes verification.
C16_Rejected(header) ==
  \/ header = NoHeader
  \/ header[1] \notin {"Bearer", "bearer"}
  \/ Len(header) < 2
  \/ ~header[2].signed

C16_NoHandlerRuns ==
  \A p \in Procs :
    pc[p] = "idle" /\ pc'[p] # "idle" /\ C16_Rejected(auth) =>
      /\ pc'[p] = "replied"
      /\ res'[p].status = 401
      /\ UNCHANGED <<events, directory, files, registrations>>

C16_OnlyForTheSubject ==
  \A p \in Procs :
    pc[p] # "idle" /\ res[p].status # 401 /\ req[p].op \in Operations =>
      req[p].user \in Users

\* C16: a request for an event or profile route whose Authorization header is
\* missing, has a scheme other than Bearer or a token that fails
\* verification is answered 401 in the step it arrives, without a handler
\* step, and leaves events, users, registrations and files unchanged.
C16_Unauthenticated401 == []C16_OnlyForTheSubject /\ [][C16_NoHandlerRuns]_vars

\* C16 witness: an Update that came with a signed token under the Basic
\* scheme has been answered 401 while an event is stored.
C16_Witness ==
  \E p \in Procs :
    /\ pc[p] = "replied"
    /\ req[p].op = "update"
    /\ res[p].status = 401
    /\ Len(auth) = 2
    /\ auth[1] = "Basic"
    /\ auth[2] \in Tokens
    /\ auth[2].signed
    /\ Stored # {}

\* The list of interests a successful request was accepted with: the array of
\* the body at registration, the array the schema's preprocess made of it at
\* a profile update.
C21_Accepted(r) ==
  IF r.op = "account" THEN r.draft.interests
  ELSE preprocessInterests(r.draft.interests)

\* Handler p has answered a registration or profile update that carried a
\* list of interests with success.
C21_Stored(p) ==
  /\ pc[p] = "replied"
  /\ req[p].op \in {"account", "profile"}
  /\ res[p].status \in {200, 201}
  /\ req[p].draft.interests # Undefined

\* What does hold: the interests returned are the accepted list whenever no
\* accepted item contains a comma, which is always so at a profile update.
C21_RoundTripWithoutComma ==
  \A p \in Procs :
    C21_Stored(p) =>
      LET accepted == C21_Accepted(req[p])
      IN  /\ (\A i \in DOMAIN accepted :
                \A k \in DOMAIN accepted[i] : accepted[i][k] # Comma)
            => res[p].events[1].interests = accepted
          /\ req[p].op = "profile" =>
               /\ res[p].events[1].interests = accepted
               /\ PublicInterests(directory[req[p].user].interests) = accepted

\* C21 (as claimed): for every list of interests accepted at account
\* registration or profile update, the interests toPublicUser returns for
\* that user are the same list, with the same items and the same number of
\* items, as the one accepted.
C21_Original ==
  \A p \in Procs :
    C21_Stored(p) =>
      /\ res[p].events[1].interests = C21_Accepted(req[p])
      /\ PublicInterests(directory[req[p].user].interests)
           = C21_Accepted(req[p])

====
